---- MODULE Spec2Model ----
(***************************************************************************)
(* scdm: ingestion of Common Data Model documents into the relational      *)
(* store (parser.rs, add.rs, import.rs, cdm.rs) and the metric query       *)
(* builder (metric.rs).                                                    *)
(*                                                                         *)
(* Times of documents are integers in milliseconds (chrono's               *)
(* from_timestamp_millis); the store keeps timestamptz values, modelled as *)
(* integers in microseconds.  UUIDs and texts are strings.                 *)
(***************************************************************************)
EXTENDS Integers, Sequences, FiniteSets, TLC

VARIABLES
    db,       \* the committed rows of the relational store, one set per table
    serial,   \* the bigserial sequence behind metric_data.metric_data_id
    ningest,  \* transactions begun so far (numbers the generated UUIDs)
    proc,     \* per CLI invocation: position, collected records, open transaction
    qry,      \* the metric query: its arguments, built statement and outcome
    batch     \* the Batch Writer on a batch given by its list lengths

vars == <<db, serial, ningest, proc, qry, batch>>

(***************************************************************************)
(* Bounds of the model.                                                    *)
(***************************************************************************)
MaxIngest == 3

(***************************************************************************)
(* Values.                                                                 *)
(***************************************************************************)
NULL == "NULL"

\* Option<T>.
None == [some |-> FALSE]
Some(x) == [some |-> TRUE, v |-> x]
NilUuid == "nil"
UsPerMs == 1000
MsPerSec == 1000

Us(ms) == ms * UsPerMs

Range(s) == {s[i] : i \in DOMAIN s}

RECURSIVE SetToSeq(_)
SetToSeq(S) ==
    IF S = {} THEN <<>>
    ELSE LET x == CHOOSE y \in S : TRUE IN <<x>> \o SetToSeq(S \ {x})

RECURSIVE Flatten(_)
Flatten(ss) == IF ss = <<>> THEN <<>> ELSE Head(ss) \o Flatten(Tail(ss))

(***************************************************************************)
(* The schema: cdm.rs.                                                     *)
(***************************************************************************)
Procs == {"p1", "p2"}

EmptyStore ==
    [run |-> {}, tag |-> {}, iteration |-> {}, param |-> {}, sample |-> {},
     period |-> {}, metric_desc |-> {}, name |-> {}, metric_data |-> {}]

\* REFERENCES <parent> of each table.
Parent ==
    [tag |-> "run", iteration |-> "run", param |-> "iteration",
     sample |-> "iteration", period |-> "sample", metric_desc |-> "period",
     name |-> "metric_desc", metric_data |-> "metric_desc"]

\* The uuid PRIMARY KEY column of a parent table; the referencing column of
\* a child has the same name.
KeyCol ==
    [run |-> "run_uuid", iteration |-> "iteration_uuid", sample |-> "sample_uuid",
     period |-> "period_uuid", metric_desc |-> "metric_desc_uuid"]

\* PRIMARY KEY of each table.  The name table's declaration is not in
\* cdm.rs; its rows are told apart by their physical position.
PKeyOf(t, r) ==
    CASE t = "run" -> <<r.run_uuid>>
      [] t = "tag" -> <<r.run_uuid, r.name>>
      [] t = "iteration" -> <<r.iteration_uuid>>
      [] t = "param" -> <<r.iteration_uuid, r.arg>>
      [] t = "sample" -> <<r.sample_uuid>>
      [] t = "period" -> <<r.period_uuid>>
      [] t = "metric_desc" -> <<r.metric_desc_uuid>>
      [] t = "name" -> r.ctid
      [] t = "metric_data" -> <<r.metric_data_id, r.metric_desc_uuid>>

FKValue(t, r) == r[KeyCol[Parent[t]]]

\* What a transaction sees: the committed rows and its own.
Visible(store, pend, t) == store[t] \cup pend[t]

\* REFERENCES: a non-null reference needs its parent row; NULL passes.
FKOk(store, pend, t, r) ==
    IF t = "run" THEN TRUE
    ELSE IF FKValue(t, r) = NULL THEN TRUE
    ELSE \E q \in Visible(store, pend, Parent[t]) : q[KeyCol[Parent[t]]] = FKValue(t, r)

(***************************************************************************)
(* Synthesized placeholder records: the Global impls of parser.rs.         *)
(***************************************************************************)
IterationGlobal(parent_uuid, my_uuid) ==
    [kind |-> "iteration", iteration_uuid |-> my_uuid, run_uuid |-> parent_uuid,
     num |-> 0, status |-> "pass", primary_metric |-> "global"]

SampleGlobal(parent_uuid, my_uuid) ==
    [kind |-> "sample", sample_uuid |-> my_uuid, iteration_uuid |-> parent_uuid,
     num |-> 0, status |-> "pass"]

PeriodGlobal(parent_uuid, my_uuid) ==
    [kind |-> "period", period_uuid |-> my_uuid, sample_uuid |-> parent_uuid,
     begin |-> 0, end |-> 0, name |-> "global"]

MetricDescGlobal(parent_uuid, my_uuid) ==
    [kind |-> "metric_desc", metric_desc_uuid |-> my_uuid, period |-> parent_uuid,
     run_uuid |-> NilUuid, metric_type |-> "global", source |-> "global",
     names |-> {}]

MetricDataGlobal(parent_uuid) ==
    [kind |-> "metric_data", metric_desc_uuid |-> parent_uuid,
     begin |-> 0, end |-> 0, duration |-> 0, value |-> 0]

\* Uuid::new_v4(): a UUID no document and no other transaction holds.
NewUuid(txn, i, level) == "g" \o ToString(txn) \o "." \o ToString(i) \o "-" \o level

\* A chain whose MetricDesc hangs on no period.
GlobalResourceUnchained(txn, i, run) ==
    LET iteration_uuid == NewUuid(txn, i, "iteration")
        sample_uuid == NewUuid(txn, i, "sample")
        period_uuid == NewUuid(txn, i, "period")
        metric_desc_uuid == NewUuid(txn, i, "metric_desc")
    IN  [iteration |-> IterationGlobal(run.run_uuid, iteration_uuid),
         sample |-> SampleGlobal(iteration_uuid, sample_uuid),
         period |-> PeriodGlobal(sample_uuid, period_uuid),
         metric_desc |-> MetricDescGlobal(NilUuid, metric_desc_uuid),
         metric_data |-> MetricDataGlobal(metric_desc_uuid)]

\* The chain insert_runs builds for the i-th run of transaction txn.
GlobalResource(txn, i, run) ==
    LET iteration_uuid == NewUuid(txn, i, "iteration")
        sample_uuid == NewUuid(txn, i, "sample")
        period_uuid == NewUuid(txn, i, "period")
        metric_desc_uuid == NewUuid(txn, i, "metric_desc")
    IN  [iteration |-> IterationGlobal(run.run_uuid, iteration_uuid),
         sample |-> SampleGlobal(iteration_uuid, sample_uuid),
         period |-> PeriodGlobal(sample_uuid, period_uuid),
         metric_desc |-> MetricDescGlobal(period_uuid, metric_desc_uuid),
         metric_data |-> MetricDataGlobal(metric_desc_uuid)]

(***************************************************************************)
(* Rows bound by the insert statements (the push_bind lists of parser.rs). *)
(***************************************************************************)
RunRow(d) ==
    [run_uuid |-> d.run_uuid, begin |-> Us(d.begin), finish |-> Us(d.end)]

TagRow(d) == [run_uuid |-> d.run_uuid, name |-> d.name, val |-> d.val]

IterationRow(d) ==
    [iteration_uuid |-> d.iteration_uuid, run_uuid |-> d.run_uuid, num |-> d.num,
     status |-> d.status, primary_metric |-> d.primary_metric]

ParamRow(d) == [iteration_uuid |-> d.iteration_uuid, arg |-> d.arg, val |-> d.val]

SampleRow(d) ==
    [sample_uuid |-> d.sample_uuid, iteration_uuid |-> d.iteration_uuid,
     num |-> d.num, status |-> d.status]

PeriodRow(d) ==
    [period_uuid |-> d.period_uuid, sample_uuid |-> d.sample_uuid,
     begin |-> Us(d.begin), finish |-> Us(d.end), name |-> d.name]

\* period_uuid: the document's period, or else the placeholder period of the
\* document's run when that run is in the Run->chain map, or else NULL.
MetricDescPeriod(globals, d) ==
    IF d.period # NULL THEN d.period
    ELSE IF d.run_uuid \in DOMAIN globals
         THEN globals[d.run_uuid].period.period_uuid
         ELSE NULL

MetricDescRow(globals, d) ==
    [metric_desc_uuid |-> d.metric_desc_uuid,
     period_uuid |-> MetricDescPeriod(globals, d),
     metric_type |-> d.metric_type, source |-> d.source, names |-> d.names]

NameRow(n, ctid) ==
    [metric_desc_uuid |-> n.metric_desc_uuid, name |-> n.name, val |-> n.val,
     ctid |-> ctid]

\* duration is bound as the record carries it.
MetricDataRow(d, id) ==
    [metric_data_id |-> id, metric_desc_uuid |-> d.metric_desc_uuid,
     value |-> d.value, begin |-> Us(d.begin), finish |-> Us(d.end),
     duration |-> d.duration]

(***************************************************************************)
(* extract_names: one Name per entry of the names map whose value is a     *)
(* JSON string (Value::as_str); the others are dropped.  An entry of the   *)
(* map is [k, is_str, v].                                                  *)
(***************************************************************************)
extract_names(metric_desc) ==
    SetToSeq({[metric_desc_uuid |-> metric_desc.metric_desc_uuid,
               name |-> e.k, val |-> e.v] :
              e \in {x \in metric_desc.names : x.is_str}})

(***************************************************************************)
(* The bucketed record set of one ingestion, keyed by kind.                *)
(***************************************************************************)
EmptyRecs ==
    [run |-> <<>>, tag |-> <<>>, iteration |-> <<>>, param |-> <<>>,
     sample |-> <<>>, period |-> <<>>, metric_desc |-> <<>>, name |-> <<>>,
     metric_data |-> <<>>]

OfKind(records, k) == SelectSeq(records, LAMBDA r : r.kind = k)

ExtractedNames(metric_descs) ==
    Flatten([i \in DOMAIN metric_descs |-> extract_names(metric_descs[i])])

\* insert_records, lines 805-836: the match over the records and the Name
\* rows derived from the MetricDesc records.
Bucket(records) ==
    [run |-> OfKind(records, "run"), tag |-> OfKind(records, "tag"),
     iteration |-> OfKind(records, "iteration"), param |-> OfKind(records, "param"),
     sample |-> OfKind(records, "sample"), period |-> OfKind(records, "period"),
     metric_desc |-> OfKind(records, "metric_desc"),
     name |-> OfKind(records, "name") \o ExtractedNames(OfKind(records, "metric_desc")),
     metric_data |-> OfKind(records, "metric_data")]

\* import, lines 95-105: one request per index; no Name list is built.
BucketImport(records) ==
    [run |-> OfKind(records, "run"), tag |-> OfKind(records, "tag"),
     iteration |-> OfKind(records, "iteration"), param |-> OfKind(records, "param"),
     sample |-> OfKind(records, "sample"), period |-> OfKind(records, "period"),
     metric_desc |-> OfKind(records, "metric_desc"),
     name |-> <<>>,
     metric_data |-> OfKind(records, "metric_data")]

(***************************************************************************)
(* The statements of one ingestion, in the order they are awaited.         *)
(***************************************************************************)
InsertRecordsOrder ==
    <<"run", "tag", "iteration", "param", "sample", "period", "metric_desc",
      "name", "metric_data">>

ImportOrder ==
    <<"run", "tag", "iteration", "param", "sample", "period", "metric_desc",
      "metric_data">>

Order(path) == IF path = "import" THEN ImportOrder ELSE InsertRecordsOrder

\* The rows of the statement for kind t.
StmtRows(pr, t, ser) ==
    LET ds == pr.recs[t] IN
    CASE t = "run" -> [i \in DOMAIN ds |-> RunRow(ds[i])]
      [] t = "tag" -> [i \in DOMAIN ds |-> TagRow(ds[i])]
      [] t = "iteration" -> [i \in DOMAIN ds |-> IterationRow(ds[i])]
      [] t = "param" -> [i \in DOMAIN ds |-> ParamRow(ds[i])]
      [] t = "sample" -> [i \in DOMAIN ds |-> SampleRow(ds[i])]
      [] t = "period" -> [i \in DOMAIN ds |-> PeriodRow(ds[i])]
      [] t = "metric_desc" -> [i \in DOMAIN ds |-> MetricDescRow(pr.globals, ds[i])]
      [] t = "name" -> [i \in DOMAIN ds |-> NameRow(ds[i], <<pr.txn, i>>)]
      [] t = "metric_data" -> [i \in DOMAIN ds |-> MetricDataRow(ds[i], ser + i)]

\* insert_runs, lines 499-521: the Run->chain map after the closure ran for
\* every run (HashMap::insert keeps the last chain of a repeated run_uuid).
GlobalsOf(txn, runs) ==
    [u \in {runs[i].run_uuid : i \in DOMAIN runs} |->
        LET last == CHOOSE i \in DOMAIN runs :
                        /\ runs[i].run_uuid = u
                        /\ \A j \in DOMAIN runs : runs[j].run_uuid = u => j <= i
        IN GlobalResource(txn, last, runs[last])]

GlobalList(txn, runs, level) ==
    [i \in DOMAIN runs |-> GlobalResource(txn, i, runs[i])[level]]

\* insert_records, lines 849-853: the chains join the lists still to insert.
AppendGlobals(recs, txn) ==
    [recs EXCEPT
        !.iteration = @ \o GlobalList(txn, recs.run, "iteration"),
        !.sample = @ \o GlobalList(txn, recs.run, "sample"),
        !.period = @ \o GlobalList(txn, recs.run, "period"),
        !.metric_desc = @ \o GlobalList(txn, recs.run, "metric_desc"),
        !.metric_data = @ \o GlobalList(txn, recs.run, "metric_data")]

(***************************************************************************)
(* What the store does with one multi-row INSERT.                          *)
(***************************************************************************)
Keys(rows, t) == {PKeyOf(t, r) : r \in rows}

\* Row i repeats a key this transaction can see, or one earlier in the statement.
DupAt(store, pend, t, rows, i) ==
    \/ PKeyOf(t, rows[i]) \in Keys(Visible(store, pend, t), t)
    \/ \E j \in 1..(i - 1) : PKeyOf(t, rows[j]) = PKeyOf(t, rows[i])

\* Row i repeats a key another open transaction has inserted: the statement waits.
WaitAt(others, t, rows, i) == PKeyOf(t, rows[i]) \in Keys(others[t], t)

FirstIdx(n, P(_)) ==
    IF \E i \in 1..n : P(i)
    THEN CHOOSE i \in 1..n : P(i) /\ \A j \in 1..(i - 1) : ~P(j)
    ELSE n + 1

\* A store in which no statement waits for another transaction.
StmtNeverBlocked(store, pend, others, t, rows) == FALSE

StmtBlocked(store, pend, others, t, rows) ==
    LET n == Len(rows)
        w == FirstIdx(n, LAMBDA i : WaitAt(others, t, rows, i))
        d == FirstIdx(n, LAMBDA i : DupAt(store, pend, t, rows, i))
    IN w <= n /\ w < d

StmtOk(store, pend, t, rows) ==
    /\ \A i \in DOMAIN rows : ~DupAt(store, pend, t, rows, i)
    /\ \A i \in DOMAIN rows : FKOk(store, pend, t, rows[i])

(***************************************************************************)
(* Nested-tree flattening: run_to_body_jsons of add.rs.  A RunNode embeds  *)
(* its iterations, samples, periods, metrics and points; tags, params and  *)
(* names are maps (sets of entries with distinct keys).                    *)
(***************************************************************************)
PointBody(metric, point) ==
    [kind |-> "metric_data", metric_desc_uuid |-> metric.metric_desc_uuid,
     begin |-> point.begin, end |-> point.finish,
     duration |-> point.finish - point.begin, value |-> point.value]

MetricBodies(run_node, period, metric) ==
    <<[kind |-> "metric_desc", metric_desc_uuid |-> metric.metric_desc_uuid,
       period |-> period.period_uuid, run_uuid |-> run_node.run_uuid,
       metric_type |-> metric.metric_type, source |-> metric.source,
       names |-> {[k |-> e.k, is_str |-> TRUE, v |-> e.v] : e \in metric.names}]>>
    \o [i \in DOMAIN metric.data |-> PointBody(metric, metric.data[i])]

PeriodBodies(run_node, sample, period) ==
    <<[kind |-> "period", period_uuid |-> period.period_uuid,
       sample_uuid |-> sample.sample_uuid, begin |-> period.begin,
       end |-> period.finish, name |-> period.name]>>
    \o Flatten([i \in DOMAIN period.metrics |->
                   MetricBodies(run_node, period, period.metrics[i])])

SampleBodies(run_node, iteration, sample) ==
    <<[kind |-> "sample", sample_uuid |-> sample.sample_uuid,
       iteration_uuid |-> iteration.iteration_uuid, num |-> sample.num,
       status |-> sample.status]>>
    \o Flatten([i \in DOMAIN sample.periods |->
                   PeriodBodies(run_node, sample, sample.periods[i])])

\* The iteration's params map is read from the document and not flattened.
IterationBodies(run_node, iteration) ==
    <<[kind |-> "iteration", iteration_uuid |-> iteration.iteration_uuid,
       run_uuid |-> run_node.run_uuid, num |-> iteration.num,
       status |-> iteration.status, primary_metric |-> iteration.primary_metric]>>
    \o Flatten([i \in DOMAIN iteration.samples |->
                   SampleBodies(run_node, iteration, iteration.samples[i])])

run_to_body_jsons(run_node) ==
    <<[kind |-> "run", run_uuid |-> run_node.run_uuid, begin |-> run_node.begin,
       end |-> run_node.finish]>>
    \o SetToSeq({[kind |-> "tag", run_uuid |-> run_node.run_uuid,
                  name |-> e.name, val |-> e.val] : e \in run_node.tags})
    \o Flatten([i \in DOMAIN run_node.iterations |->
                   IterationBodies(run_node, run_node.iterations[i])])

(***************************************************************************)
(* Input documents.                                                        *)
(***************************************************************************)
\* A complete flat document set of run r1; its metric has one string-valued
\* and one number-valued name.
FlatComplete ==
    <<[kind |-> "run", run_uuid |-> "r1", begin |-> 0, end |-> 4000],
      [kind |-> "tag", run_uuid |-> "r1", name |-> "topo", val |-> "x"],
      [kind |-> "iteration", iteration_uuid |-> "i1", run_uuid |-> "r1", num |-> 1,
       status |-> "pass", primary_metric |-> "iops"],
      [kind |-> "param", iteration_uuid |-> "i1", arg |-> "bs", val |-> "4k"],
      [kind |-> "sample", sample_uuid |-> "s1", iteration_uuid |-> "i1", num |-> 1,
       status |-> "pass"],
      [kind |-> "period", period_uuid |-> "p1", sample_uuid |-> "s1", begin |-> 0,
       end |-> 3000, name |-> "measurement"],
      [kind |-> "metric_desc", metric_desc_uuid |-> "m1", period |-> "p1",
       run_uuid |-> "r1", metric_type |-> "iops", source |-> "fio",
       names |-> {[k |-> "host", is_str |-> TRUE, v |-> "a"],
                  [k |-> "cpu", is_str |-> FALSE, v |-> "5"]}],
      [kind |-> "metric_data", metric_desc_uuid |-> "m1", begin |-> 500,
       end |-> 1500, duration |-> 1000, value |-> 10]>>

\* A run with a metric reported at run granularity (no period in the
\* document); the point's duration counts both end milliseconds.
FlatRunScoped ==
    <<[kind |-> "run", run_uuid |-> "r2", begin |-> 0, end |-> 4000],
      [kind |-> "metric_desc", metric_desc_uuid |-> "m2", period |-> NULL,
       run_uuid |-> "r2", metric_type |-> "busy", source |-> "mpstat",
       names |-> {[k |-> "host", is_str |-> TRUE, v |-> "b"]}],
      [kind |-> "metric_data", metric_desc_uuid |-> "m2", begin |-> 0,
       end |-> 400, duration |-> 401, value |-> 7]>>

\* A run-scoped metric descriptor of run r1 arriving without the run document.
FlatLate ==
    <<[kind |-> "metric_desc", metric_desc_uuid |-> "m3", period |-> NULL,
       run_uuid |-> "r1", metric_type |-> "busy", source |-> "mpstat",
       names |-> {}]>>

\* A sample whose iteration is in no document and in no table.
FlatOrphan ==
    <<[kind |-> "run", run_uuid |-> "r3", begin |-> 0, end |-> 4000],
      [kind |-> "sample", sample_uuid |-> "s3", iteration_uuid |-> "i9", num |-> 1,
       status |-> "pass"]>>

\* One Run, Iteration, Sample, Period and a metric named {"host": "a"} with
\* two points of 1000 ms, values 10 and 20, inside the period.
TreeHost ==
    [run_uuid |-> "r1", begin |-> 0, finish |-> 5000,
     tags |-> {[name |-> "topo", val |-> "x"]},
     iterations |-> <<
        [iteration_uuid |-> "i1", num |-> 1, status |-> "pass",
         primary_metric |-> "iops", params |-> {[arg |-> "bs", val |-> "4k"]},
         samples |-> <<
            [sample_uuid |-> "s1", num |-> 1, status |-> "pass",
             periods |-> <<
                [period_uuid |-> "p1", begin |-> 0, finish |-> 4000,
                 name |-> "measurement",
                 metrics |-> <<
                    [metric_desc_uuid |-> "m1", metric_type |-> "iops",
                     source |-> "fio", names |-> {[k |-> "host", v |-> "a"]},
                     data |-> <<[begin |-> 1000, finish |-> 2000, value |-> 10],
                                [begin |-> 2000, finish |-> 3000, value |-> 20]>>]
                 >>]
             >>]
         >>]
     >>]

\* A run whose descriptors differ in the names they carry: m5 has host and
\* env, m6 only host, m7 only env.
TreeMixed ==
    [run_uuid |-> "r5", begin |-> 0, finish |-> 5000,
     tags |-> {},
     iterations |-> <<
        [iteration_uuid |-> "i5", num |-> 1, status |-> "pass",
         primary_metric |-> "iops", params |-> {},
         samples |-> <<
            [sample_uuid |-> "s5", num |-> 1, status |-> "pass",
             periods |-> <<
                [period_uuid |-> "p5", begin |-> 0, finish |-> 4000,
                 name |-> "measurement",
                 metrics |-> <<
                    [metric_desc_uuid |-> "m5", metric_type |-> "iops",
                     source |-> "fio",
                     names |-> {[k |-> "host", v |-> "a"], [k |-> "env", v |-> "prod"]},
                     data |-> <<[begin |-> 1000, finish |-> 2000, value |-> 10],
                                [begin |-> 3000, finish |-> 5000, value |-> 30]>>],
                    [metric_desc_uuid |-> "m6", metric_type |-> "iops",
                     source |-> "fio", names |-> {[k |-> "host", v |-> "b"]},
                     data |-> <<[begin |-> 2000, finish |-> 3000, value |-> 50]>>],
                    [metric_desc_uuid |-> "m7", metric_type |-> "iops",
                     source |-> "fio", names |-> {[k |-> "env", v |-> "prod"]},
                     data |-> <<[begin |-> 2000, finish |-> 3000, value |-> 70]>>]
                 >>]
             >>]
         >>]
     >>]

QueryTreeInputs == {<<TreeHost>>, <<TreeMixed>>}

(***************************************************************************)
(* A flat event stream: a file is a sequence of lines, index lines and     *)
(* body lines in turn.  A line the reader cannot return (an I/O error,     *)
(* bytes that are not UTF-8) is [ok |-> FALSE].  An index name is a        *)
(* sequence of pieces in which "dev-" and "@" stand for themselves.        *)
(***************************************************************************)
IndexLine(name) == [ok |-> TRUE, json |-> TRUE, index |-> name]
BodyLine(body) == [ok |-> TRUE, body |-> body]

IndexNameOf(kind) == <<"cdmv8", "dev-", kind, "@", "2025.01">>

\* The file an exporter writes for a list of documents.
FileOf(records) ==
    Flatten([i \in DOMAIN records |->
                <<IndexLine(IndexNameOf(records[i].kind)), BodyLine(records[i])>>])

\* The late descriptor followed by a pair whose index names no kind.
FileUnknownPair ==
    FileOf(FlatLate)
    \o <<IndexLine(<<"cdmv8", "dev-", "host", "@", "2025.01">>),
          BodyLine([kind |-> "host", host_uuid |-> "h1"])>>

\* The same descriptor, and an index line that names no kind as the last
\* line of the file, its body never written.
FileUnknownTail ==
    FileOf(FlatLate)
    \o <<IndexLine(<<"cdmv8", "dev-", "host", "@", "2025.01">>)>>

\* An index line that is not an index object, and a tag body under a run
\* index.
FileBadIndex ==
    <<[ok |-> TRUE, json |-> FALSE], BodyLine([kind |-> "run", run_uuid |-> "r6",
                                               begin |-> 0, end |-> 4000])>>

FileBadBody ==
    <<IndexLine(IndexNameOf("run")),
      BodyLine([kind |-> "tag", run_uuid |-> "r6", name |-> "topo", val |-> "x"])>>

\* The late descriptor, a line the reader fails on, and a run document.
FileUnreadable ==
    FileOf(FlatLate) \o <<[ok |-> FALSE]>>
    \o FileOf(<<[kind |-> "run", run_uuid |-> "r6", begin |-> 0, end |-> 4000]>>)

\* The directories parse is run on, each a sequence of .ndjson files.
FlatInputs ==
    {<<FileOf(FlatComplete)>>, <<FileOf(FlatRunScoped)>>, <<FileOf(FlatLate)>>,
     <<FileOf(FlatOrphan)>>, <<FileUnknownPair>>, <<FileUnknownTail>>,
     <<FileBadIndex>>, <<FileBadBody>>, <<FileUnreadable>>}
TreeInputs == {<<TreeHost>>}
\* One result set per query of build_queries (one query per run UUID given).
ImportInputs == {<<FlatComplete>>, <<FlatRunScoped, FlatOrphan>>}

(***************************************************************************)
(* One CLI invocation.                                                     *)
(***************************************************************************)
EmptyGlobals == [u \in {} |-> NULL]

IdleProc ==
    [pc |-> "idle", path |-> "none", queue |-> <<>>, recs |-> EmptyRecs,
     pend |-> EmptyStore, globals |-> EmptyGlobals, idx |-> 1, num_new |-> 0, issued |-> <<>>, txn |-> 0, outcome |-> "none",
     error |-> "none", input |-> <<>>, done |-> 0]

\* pool.begin(): a transaction with nothing written yet.
BeginTxn(path, recs, queue, txn) ==
    [pc |-> "txn", path |-> path, queue |-> queue, recs |-> recs,
     pend |-> EmptyStore, globals |-> EmptyGlobals, idx |-> 1, num_new |-> 0, issued |-> <<>>, txn |-> txn, outcome |-> "none",
     error |-> "none", input |-> <<>>, done |-> 0]

\* The next statement that reaches the store: an insert function given an
\* empty list returns Ok(0) without a statement.  0 when none is left.
NextStmt(pr) ==
    LET order == Order(pr.path)
        live == {k \in DOMAIN order : k >= pr.idx /\ pr.recs[order[k]] # <<>>}
    IN IF live = {} THEN 0 ELSE CHOOSE k \in live : \A j \in live : k <= j

OthersPending(p) ==
    [t \in DOMAIN EmptyStore |-> UNION {proc[q].pend[t] : q \in Procs \ {p}}]

\* The same, the rows of the statement left out of the count.
AfterStmtUncounted(pr, k, t, rows) ==
    [pr EXCEPT
        !.pend[t] = @ \cup Range(rows),
        !.idx = k + 1,
        !.issued = Append(@, t),
        !.globals = IF t = "run" THEN GlobalsOf(pr.txn, pr.recs.run) ELSE @,
        !.recs = IF t = "run" THEN AppendGlobals(@, pr.txn) ELSE @]

\* The transaction after a statement that succeeded.
AfterStmt(pr, k, t, rows) ==
    [pr EXCEPT
        !.pend[t] = @ \cup Range(rows),
        !.idx = k + 1,
        !.num_new = @ + Len(rows),
        !.issued = Append(@, t),
        !.globals = IF t = "run" THEN GlobalsOf(pr.txn, pr.recs.run) ELSE @,
        !.recs = IF t = "run" THEN AppendGlobals(@, pr.txn) ELSE @]

\* `?` on a failed statement: the function returns, the Transaction is
\* dropped without commit, and the store rolls its writes back.
Rollback(pr) ==
    [pr EXCEPT !.pc = "idle", !.outcome = "failed", !.pend = EmptyStore,
               !.recs = EmptyRecs, !.globals = EmptyGlobals, !.queue = <<>>,
               !.error = "Database", !.input = <<>>]

\* The store after a Transaction is dropped uncommitted: none of its rows.
StoreAfterDropKeepsWrites(store, pend) == [t \in DOMAIN store |-> store[t] \cup pend[t]]

StoreAfterDrop(store, pend) == store

\* txn.commit(): the transaction's rows become visible to all.
CommitStore(store, pend) == [t \in DOMAIN store |-> store[t] \cup pend[t]]

Finished(pr) ==
    [pr EXCEPT !.pc = "idle", !.outcome = "committed", !.pend = EmptyStore,
               !.recs = EmptyRecs, !.globals = EmptyGlobals, !.input = <<>>]

RECURSIVE SplitOn(_, _, _)
\* str::split: the pieces between the occurrences of sep.
SplitOn(pieces, sep, cur) ==
    IF pieces = <<>> THEN <<cur>>
    ELSE IF Head(pieces) = sep THEN <<cur>> \o SplitOn(Tail(pieces), sep, <<>>)
    ELSE SplitOn(Tail(pieces), sep, Append(cur, Head(pieces)))

RECURSIVE Concat(_)
Concat(pieces) == IF pieces = <<>> THEN "" ELSE Head(pieces) \o Concat(Tail(pieces))

IndexTypes ==
    {"iteration", "metric_data", "metric_desc", "param", "period", "run",
     "sample", "tag"}

\* name.split("dev-").nth(1)?.split("@").nth(0)? matched against the kinds.
index_name_to_type(name) ==
    LET by_dev == SplitOn(name, "dev-", <<>>) IN
    IF Len(by_dev) < 2 THEN None
    ELSE LET by_at == SplitOn(by_dev[2], "@", <<>>) IN
         IF Concat(by_at[1]) \in IndexTypes THEN Some(Concat(by_at[1])) ELSE None

\* parse_body: the body deserialized as the struct the index type names.
parse_body(index_type, body_jsonl) ==
    IF body_jsonl.body.kind = index_type
    THEN [err |-> "none", body |-> body_jsonl.body]
    ELSE [err |-> "JSONParseFailed"]

RECURSIVE ReadLines(_, _)
\* The while-let loop over one file: it takes two lines at a time and ends at
\* the first pair with a line missing or unreadable; an error returns.
ReadLines(lines, records) ==
    IF Len(lines) < 2 \/ ~lines[1].ok \/ ~lines[2].ok
    THEN [err |-> "none", records |-> records]
    ELSE IF ~lines[1].json THEN [err |-> "JSONParseFailed", records |-> records]
    ELSE LET index_type == index_name_to_type(lines[1].index) IN
         IF ~index_type.some THEN [err |-> "UnknownIndex", records |-> records]
         ELSE LET body == parse_body(index_type.v, lines[2]) IN
              IF body.err # "none" THEN [err |-> body.err, records |-> records]
              ELSE ReadLines(SubSeq(lines, 3, Len(lines)), Append(records, body.body))

RECURSIVE ReadFiles(_, _)
\* The loop over the .ndjson files of the directory.
ReadFiles(files, records) ==
    IF files = <<>> THEN [err |-> "none", records |-> records]
    ELSE LET r == ReadLines(Head(files), records) IN
         IF r.err # "none" THEN r ELSE ReadFiles(Tail(files), r.records)

\* parse: every line pair of every .ndjson file is read into records, then
\* the transaction begins.  An error while reading returns before it.
StartParse(p) ==
    /\ proc[p].pc = "idle"
    /\ ningest < MaxIngest
    /\ \E input \in FlatInputs :
          LET r == ReadFiles(input, <<>>) IN
          proc' = [proc EXCEPT ![p] =
                      IF r.err # "none"
                      THEN [IdleProc EXCEPT !.path = "parse", !.outcome = "failed",
                                            !.error = r.err, !.input = input]
                      ELSE [BeginTxn("parse", Bucket(r.records), <<>>, ningest + 1)
                               EXCEPT !.input = input]]
    /\ ningest' = ningest + 1
    /\ UNCHANGED <<db, serial, qry, batch>>

\* add: every file is read as a list of RunNode and flattened, then the
\* transaction begins.
StartAdd(p) ==
    /\ proc[p].pc = "idle"
    /\ ningest < MaxIngest
    /\ \E input \in TreeInputs :
          proc' = [proc EXCEPT ![p] =
                      BeginTxn("add",
                               Bucket(Flatten([i \in DOMAIN input |->
                                                  run_to_body_jsons(input[i])])),
                               <<>>, ningest + 1)]
    /\ ningest' = ningest + 1
    /\ UNCHANGED <<db, serial, qry, batch>>

\* import: the first query's eight requests, then its transaction begins.
StartImport(p) ==
    /\ proc[p].pc = "idle"
    /\ \E input \in ImportInputs :
          /\ ningest + Len(input) <= MaxIngest
          /\ proc' = [proc EXCEPT ![p] =
                         BeginTxn("import", BucketImport(Head(input)), Tail(input),
                                  ningest + 1)]
    /\ ningest' = ningest + 1
    /\ UNCHANGED <<db, serial, qry, batch>>

\* One insert statement of the open transaction succeeds.
StmtSucceeds(p) ==
    LET pr == proc[p]
        k == NextStmt(pr)
        t == Order(pr.path)[k]
        rows == StmtRows(pr, t, serial)
    IN  /\ pr.pc = "txn"
        /\ k # 0
        /\ ~StmtBlocked(db, pr.pend, OthersPending(p), t, rows)
        /\ StmtOk(db, pr.pend, t, rows)
        /\ proc' = [proc EXCEPT ![p] = AfterStmt(pr, k, t, rows)]
        /\ serial' = IF t = "metric_data" THEN serial + Len(rows) ELSE serial
        /\ UNCHANGED <<db, ningest, qry, batch>>

\* One insert statement fails (a repeated primary key, a missing parent).
StmtFails(p) ==
    LET pr == proc[p]
        k == NextStmt(pr)
        t == Order(pr.path)[k]
        rows == StmtRows(pr, t, serial)
    IN  /\ pr.pc = "txn"
        /\ k # 0
        /\ ~StmtBlocked(db, pr.pend, OthersPending(p), t, rows)
        /\ ~StmtOk(db, pr.pend, t, rows)
        /\ proc' = [proc EXCEPT ![p] = Rollback(pr)]
        /\ db' = StoreAfterDrop(db, pr.pend)
        /\ serial' = IF t = "metric_data" THEN serial + Len(rows) ELSE serial
        /\ UNCHANGED <<ningest, qry, batch>>

\* Every statement returned Ok: commit.  import then goes on to its next
\* query, in a transaction of its own.
Commit(p) ==
    LET pr == proc[p] IN
    /\ pr.pc = "txn"
    /\ NextStmt(pr) = 0
    /\ db' = CommitStore(db, pr.pend)
    /\ IF pr.queue = <<>>
       THEN /\ proc' = [proc EXCEPT ![p] = Finished(pr)]
            /\ ningest' = ningest
       ELSE /\ proc' = [proc EXCEPT ![p] =
                           [BeginTxn("import", BucketImport(Head(pr.queue)),
                                     Tail(pr.queue), ningest + 1)
                               EXCEPT !.done = pr.done + 1]]
            /\ ningest' = ningest + 1
    /\ UNCHANGED <<serial, qry, batch>>

NoQuery == [pc |-> "none"]

NoStatement == [kind |-> "none", rows |-> 0, binds |-> 0]
NoBatch ==
    [pc |-> "idle", sizes |-> [t \in DOMAIN EmptyRecs |-> 0], idx |-> 1, sent |-> 0,
     num_new |-> 0, last |-> NoStatement]

Init ==
    /\ db = EmptyStore
    /\ serial = 0
    /\ ningest = 0
    /\ proc = [p \in Procs |-> IdleProc]
    /\ qry = NoQuery
    /\ batch = NoBatch

Next ==
    \E p \in Procs :
        \/ StartParse(p)
        \/ StartAdd(p)
        \/ StartImport(p)
        \/ StmtSucceeds(p)
        \/ StmtFails(p)
        \/ Commit(p)

Spec == Init /\ [][Next]_vars

(***************************************************************************)
(* The metric query: metric.rs.  Option<T> is [some |-> FALSE] or          *)
(* [some |-> TRUE, v |-> x].                                               *)
(***************************************************************************)

\* str::split("="): the parts between the separators, at least one part.  A
\* --name item is a sequence of pieces, the piece "=" being the separator.
RECURSIVE SplitEq(_, _)
SplitEq(pieces, cur) ==
    IF pieces = <<>> THEN <<cur>>
    ELSE IF Head(pieces) = "=" THEN <<cur>> \o SplitEq(Tail(pieces), "")
    ELSE SplitEq(Tail(pieces), cur \o Head(pieces))

\* parts.get(0).ok_or(MetricError("invalid name")): the one error of the
\* name loop, for an item whose split has no part.
InvalidName(name) ==
    name.some /\ \E i \in DOMAIN name.v : Len(SplitEq(name.v[i], "")) = 0

\* names: (parts[0], parts.get(1)) of every --name item.
ParseNames(name) ==
    IF ~name.some THEN <<>>
    ELSE [i \in DOMAIN name.v |->
             LET parts == SplitEq(name.v[i], "")
             IN [n |-> parts[1],
                 v |-> IF Len(parts) >= 2 THEN Some(parts[2]) ELSE None]]

BaseOf(names) ==
    IF names # <<>> THEN names[1] ELSE [n |-> "base", v |-> None]

\* Tokens of the statement text, in the order of the qb.push calls.
Col(alias, col) == <<alias, col>>
Rel(alias) == [tk |-> "rel", alias |-> alias, src |-> "table"]
LeftJoin == [tk |-> "left_join"]
CrossJoin == [tk |-> "cross_join"]
On(l, r) == [tk |-> "on", l |-> l, r |-> r]

\* push_metric_subquery: metric_desc, name and metric_data joined on the
\* descriptor, filtered by name.name and, when given, name.val.
push_metric_subquery(maybe_name, maybe_value) ==
    [tk |-> "rel", alias |-> maybe_name, src |-> "subquery",
     name |-> maybe_name, value |-> maybe_value]

\* push_choose_aggregator: the last expression of the select list.
push_choose_aggregator(agg) == [fn |-> agg, arg |-> Col("metric_data", "value")]

join_part ==
    << Rel("metric_data"),
       LeftJoin, Rel("metric_desc"),
       On(Col("metric_desc", "metric_desc_uuid"), Col("metric_data", "metric_desc_uuid")),
       LeftJoin, Rel("period"),
       On(Col("period", "period_uuid"), Col("metric_desc", "period_uuid")),
       LeftJoin, Rel("sample"),
       On(Col("sample", "sample_uuid"), Col("period", "sample_uuid")),
       LeftJoin, Rel("iteration"),
       On(Col("iteration", "iteration_uuid"), Col("sample", "iteration_uuid")),
       LeftJoin, Rel("run"),
       On(Col("run", "run_uuid"), Col("iteration", "run_uuid")),
       LeftJoin >>

\* The breakout joins: the first subquery gets its ON only when there is a
\* second name; each later one is joined to the one before it.
BreakoutJoins(names) ==
    LET base == BaseOf(names) IN
    <<push_metric_subquery(base.n, base.v)>>
    \o (IF Len(names) > 1
        THEN <<On(Col("metric_desc", "metric_desc_uuid"), Col(base.n, "metric_desc_uuid")),
               LeftJoin>>
        ELSE <<>>)
    \o Flatten([j \in 1..(Len(names) - 1) |->
                  LET i == j + 1 IN
                  <<push_metric_subquery(names[i].n, names[i].v),
                    On(Col(names[i - 1].n, "metric_desc_uuid"),
                       Col(names[i].n, "metric_desc_uuid"))>>
                  \o (IF i < Len(names) THEN <<LeftJoin>> ELSE <<>>)])

\* The windows of interest, from a period's bounds or from --begin/--finish.
WindowJoin(args) ==
    IF args.ref_period.some
    THEN <<CrossJoin, [tk |-> "rel", alias |-> "woi", src |-> "period_windows",
                       period_uuid |-> args.ref_period.v,
                       resolution |-> args.resolution]>>
    ELSE IF args.begin.some /\ args.finish.some
    THEN <<CrossJoin, [tk |-> "rel", alias |-> "woi", src |-> "range_windows",
                       begin |-> args.begin.v, finish |-> args.finish.v,
                       resolution |-> args.resolution]>>
    ELSE <<>>

Filter(opt, op, col) == IF opt.some THEN <<[p |-> op, col |-> col, v |-> opt.v]>> ELSE <<>>

WherePart(args) ==
    <<[p |-> "true"]>>
    \o Filter(args.run_uuid, "eq", Col("run", "run_uuid"))
    \o Filter(args.iteration_uuid, "eq", Col("iteration", "iteration_uuid"))
    \o Filter(args.metric_desc_uuid, "eq", Col("metric_data", "metric_desc_uuid"))
    \o Filter(args.metric_type, "eq", Col("metric_desc", "metric_type"))
    \o Filter(args.value_eq, "num_eq", Col("metric_data", "value"))
    \o Filter(args.value_lt, "lt", Col("metric_data", "value"))
    \o Filter(args.value_gt, "gt", Col("metric_data", "value"))
    \o (IF args.ref_period.some
        THEN <<[p |-> "overlap", lo |-> Col("woi", "window_begin"),
                hi |-> Col("woi", "window_finish")]>>
        ELSE <<>>)
    \o (IF args.begin.some /\ args.finish.some
        THEN <<[p |-> "overlap_bind", lo |-> args.begin.v, hi |-> args.finish.v]>>
        ELSE <<>>)

NameCols(names) == [i \in DOMAIN names |-> Col(names[i].n, "name_value")]

Grouped(args) == args.name.some /\ args.aggregator # "none"

\* The statement query_metric builds.
BuildStatement(args) ==
    LET names == ParseNames(args.name) IN
    [select |-> <<Col("run", "run_uuid"), Col("iteration", "iteration_uuid"),
                  Col("metric_desc", "metric_type")>>
                \o NameCols(names)
                \o <<Col("woi", "window_begin"), Col("woi", "window_finish")>>,
     agg |-> push_choose_aggregator(args.aggregator),
     from |-> join_part \o BreakoutJoins(names) \o WindowJoin(args),
     where |-> WherePart(args),
     group_by |-> IF Grouped(args)
                  THEN <<Col("run", "run_uuid"), Col("iteration", "iteration_uuid"),
                         Col("metric_desc", "metric_type"),
                         Col("woi", "window_begin"), Col("woi", "window_finish")>>
                       \o NameCols(names)
                  ELSE <<>>,
     order_by |-> IF Grouped(args)
                  THEN NameCols(names)
                       \o <<Col("woi", "window_begin"), Col("woi", "window_finish")>>
                  ELSE <<>>]

(***************************************************************************)
(* What the store does with the statement.                                 *)
(***************************************************************************)
\* FROM parses as: relation, then LEFT JOIN relation ON condition or
\* CROSS JOIN relation, any number of times.  A LEFT JOIN whose relation is
\* not followed by ON is a syntax error.
RECURSIVE JoinsParse(_, _)
JoinsParse(toks, i) ==
    IF i > Len(toks) THEN TRUE
    ELSE IF toks[i].tk = "left_join"
    THEN /\ i + 2 <= Len(toks)
         /\ toks[i + 1].tk = "rel"
         /\ toks[i + 2].tk = "on"
         /\ JoinsParse(toks, i + 3)
    ELSE IF toks[i].tk = "cross_join"
    THEN /\ i + 1 <= Len(toks)
         /\ toks[i + 1].tk = "rel"
         /\ JoinsParse(toks, i + 2)
    ELSE FALSE

FromParses(toks) == toks # <<>> /\ toks[1].tk = "rel" /\ JoinsParse(toks, 2)

RelTokens(toks) == SelectSeq(toks, LAMBDA x : x.tk = "rel")

\* Every relation has an alias of its own, an ON condition names relations
\* at or before its place, and every other column names a relation of FROM.
\* The alias of a subquery is written between double quotes: an empty one
\* is a zero-length delimited identifier, which the store rejects.
AliasesResolve(stmt) ==
    LET toks == stmt.from
        rels == RelTokens(toks)
        aliases == {rels[i].alias : i \in DOMAIN rels}
        before(i) == {toks[j].alias : j \in {k \in 1..i : toks[k].tk = "rel"}}
        cols == Range(stmt.select) \cup {stmt.agg.arg} \cup Range(stmt.group_by)
                \cup Range(stmt.order_by)
                \cup {stmt.where[i].col :
                        i \in {k \in DOMAIN stmt.where : stmt.where[k].p \in {"eq", "num_eq", "lt", "gt"}}}
                \cup UNION {{stmt.where[i].lo, stmt.where[i].hi} :
                        i \in {k \in DOMAIN stmt.where : stmt.where[k].p = "overlap"}}
        weighted == IF stmt.agg.fn = "weighted_avg" THEN {"woi"} ELSE {}
    IN  /\ "" \notin aliases
        /\ \A i, j \in DOMAIN rels : rels[i].alias = rels[j].alias => i = j
        /\ \A i \in DOMAIN toks :
              toks[i].tk = "on" => {toks[i].l[1], toks[i].r[1]} \subseteq before(i)
        /\ {c[1] : c \in cols} \cup weighted \subseteq aliases

\* interval / integer: the quotient in microseconds, rounded to the nearest
\* microsecond, halves to the even one (spans of less than a day).
Rint(n, r) ==
    LET a == IF n < 0 THEN -n ELSE n
        q == a \div r
        m == a % r
        up == IF 2 * m > r THEN 1 ELSE IF 2 * m < r THEN 0 ELSE q % 2
    IN IF n < 0 THEN -(q + up) ELSE q + up

\* The same without LIMIT r: every value of the series.
WindowsOfUnlimited(t0, t1, r) ==
    IF r = 0 THEN [err |-> TRUE, rows |-> {}]
    ELSE LET d == Rint(t1 - t0, r) IN
         IF d = 0 THEN [err |-> TRUE, rows |-> {}]
         ELSE LET abs(x) == IF x < 0 THEN -x ELSE x
                  n == abs(t1 - t0) \div abs(d) + 1
              IN [err |-> FALSE,
                  rows |-> {[window_begin |-> t0 + k * d,
                             window_finish |-> t0 + k * d + d] : k \in 0..(n - 1)}]

\* generate_series(t0, t1, step) with window_duration, ORDER BY
\* window_begin, window_finish LIMIT r.  Division by zero and a zero step
\* are errors of the store.
WindowsOf(t0, t1, r) ==
    IF r = 0 THEN [err |-> TRUE, rows |-> {}]
    ELSE LET d == Rint(t1 - t0, r) IN
         IF d = 0 THEN [err |-> TRUE, rows |-> {}]
         ELSE LET abs(x) == IF x < 0 THEN -x ELSE x
                  n == abs(t1 - t0) \div abs(d) + 1
                  series == {t0 + k * d : k \in 0..(n - 1)}
                  kept == {b \in series : Cardinality({c \in series : c < b}) < r}
              IN [err |-> FALSE,
                  rows |-> {[window_begin |-> b, window_finish |-> b + d] : b \in kept}]

Windows(store, tok) ==
    IF tok.src = "range_windows" THEN WindowsOf(tok.begin, tok.finish, tok.resolution)
    ELSE LET ps == {p \in store.period : p.period_uuid = tok.period_uuid} IN
         IF ps = {} THEN [err |-> FALSE, rows |-> {}]
         ELSE LET p == CHOOSE x \in ps : TRUE
              IN WindowsOf(p.begin, p.finish, tok.resolution)

\* The rows of the breakout subquery: one per (descriptor, name row, point)
\* that match; name_ctid and metric_data_id tell equal rows apart.
SubqueryRows(store, tok) ==
    {[metric_desc_uuid |-> n.metric_desc_uuid, metric_type |-> md.metric_type,
      name_value |-> n.val, metric_value |-> d.value,
      name_ctid |-> n.ctid, metric_data_id |-> d.metric_data_id] :
        <<md, n, d>> \in {x \in store.metric_desc \X store.name \X store.metric_data :
            /\ x[1].metric_desc_uuid = x[2].metric_desc_uuid
            /\ x[2].metric_desc_uuid = x[3].metric_desc_uuid
            /\ x[2].name = tok.name
            /\ tok.value.some => x[2].val = tok.value.v}}

RelRows(store, tok) ==
    IF tok.src = "table" THEN store[tok.alias]
    ELSE IF tok.src = "subquery" THEN SubqueryRows(store, tok)
    ELSE Windows(store, tok).rows

\* A joined row maps each alias to {} (NULL-extended) or to {its row}.
Val(row, c) ==
    IF row[c[1]] = {} THEN NULL ELSE (CHOOSE x \in row[c[1]] : TRUE)[c[2]]

\* = on uuid and text columns: unknown, hence not true, when a side is NULL.
SqlEq(a, b) == a # NULL /\ b # NULL /\ a = b

LeftJoinRows(rows, alias, rel, on) ==
    UNION {LET m == {x \in rel : SqlEq(Val(row @@ (alias :> {x}), on.l),
                                       Val(row @@ (alias :> {x}), on.r))}
           IN IF m = {} THEN {row @@ (alias :> {})}
              ELSE {row @@ (alias :> {x}) : x \in m} : row \in rows}

CrossJoinRows(rows, alias, rel) ==
    {row @@ (alias :> {x}) : <<row, x>> \in rows \X rel}

RECURSIVE JoinFrom(_, _, _, _)
JoinFrom(store, toks, i, rows) ==
    IF i > Len(toks) THEN rows
    ELSE IF toks[i].tk = "left_join"
    THEN JoinFrom(store, toks, i + 3,
                  LeftJoinRows(rows, toks[i + 1].alias, RelRows(store, toks[i + 1]),
                               toks[i + 2]))
    ELSE JoinFrom(store, toks, i + 2,
                  CrossJoinRows(rows, toks[i + 1].alias, RelRows(store, toks[i + 1])))

FromRows(store, toks) ==
    JoinFrom(store, toks, 2, {(toks[1].alias :> {x}) : x \in RelRows(store, toks[1])})

Overlap(b, f, lo, hi) ==
    \/ (b > lo /\ b < hi)
    \/ (f > lo /\ f < hi)
    \/ (b < lo /\ f > hi)

Holds(row, pred) ==
    LET pt == CHOOSE x \in row["metric_data"] : TRUE IN
    CASE pred.p = "true" -> TRUE
      [] pred.p = "eq" -> SqlEq(Val(row, pred.col), pred.v)
      [] pred.p = "num_eq" -> Val(row, pred.col) = pred.v
      [] pred.p = "lt" -> Val(row, pred.col) < pred.v
      [] pred.p = "gt" -> Val(row, pred.col) > pred.v
      [] pred.p = "overlap" ->
            Overlap(pt.begin, pt.finish, Val(row, pred.lo), Val(row, pred.hi))
      [] pred.p = "overlap_bind" -> Overlap(pt.begin, pt.finish, pred.lo, pred.hi)

WhereRows(rows, preds) == {row \in rows : \A i \in DOMAIN preds : Holds(row, preds[i])}

RECURSIVE SumSeq(_)
SumSeq(s) == IF s = <<>> THEN 0 ELSE Head(s) + SumSeq(Tail(s))

\* EXTRACT(EPOCH FROM t)::bigint * 1000: the epoch in whole seconds, rounded
\* to the nearest (a half rounds up for the numeric epoch), then times 1000.
EpochMs(t) == ((t + (UsPerMs * MsPerSec) \div 2) \div (UsPerMs * MsPerSec)) * MsPerSec

\* duration_correction of the weighted average, per joined row.
DurationCorrection(row) ==
    LET pt == CHOOSE x \in row["metric_data"] : TRUE
        w == CHOOSE x \in row["woi"] : TRUE
    IN pt.duration
       - (EpochMs(pt.begin) - EpochMs(w.window_begin))
       - (EpochMs(w.window_finish) - EpochMs(pt.finish))

\* The aggregate over the joined rows of one group, as the fraction
\* num / den.  STDDEV is given by its square, the sample variance; it is
\* NULL over one row (den = 0).
Aggregate(fn, members) ==
    LET ms == SetToSeq(members)
        v(i) == (CHOOSE x \in ms[i]["metric_data"] : TRUE).value
        n == Len(ms)
        sum == SumSeq([i \in DOMAIN ms |-> v(i)])
    IN CASE fn = "avg" -> [num |-> sum, den |-> n]
         [] fn = "weighted_avg" ->
               [num |-> SumSeq([i \in DOMAIN ms |-> v(i) * DurationCorrection(ms[i])]),
                den |-> SumSeq([i \in DOMAIN ms |-> DurationCorrection(ms[i])])]
         [] fn = "stddev" ->
               [num |-> n * SumSeq([i \in DOMAIN ms |-> v(i) * v(i)]) - sum * sum,
                den |-> n * (n - 1)]
         [] fn = "min" ->
               [num |-> CHOOSE x \in {v(i) : i \in DOMAIN ms} :
                            \A j \in DOMAIN ms : x <= v(j),
                den |-> 1]
         [] fn = "max" ->
               [num |-> CHOOSE x \in {v(i) : i \in DOMAIN ms} :
                            \A j \in DOMAIN ms : x >= v(j),
                den |-> 1]

KeyOf(row, cols) == [i \in DOMAIN cols |-> Val(row, cols[i])]

\* The result rows: the select list's columns, the value, and the joined
\* rows the result row was computed from.
ResultRows(stmt, rows) ==
    IF stmt.agg.fn = "none"
    THEN {[cols |-> KeyOf(row, stmt.select),
           value |-> [num |-> Val(row, stmt.agg.arg), den |-> 1],
           members |-> {row}] : row \in rows}
    ELSE {[cols |-> KeyOf(CHOOSE row \in g : TRUE, stmt.select),
           value |-> Aggregate(stmt.agg.fn, g),
           members |-> g] :
             g \in {{row \in rows : KeyOf(row, stmt.group_by) = k} :
                        k \in {KeyOf(row, stmt.group_by) : row \in rows}}}

WoiRel(stmt) == SelectSeq(stmt.from, LAMBDA x : x.tk = "rel" /\ x.alias = "woi")

\* query.fetch_all: a statement that does not parse or resolve, an aggregate
\* beside ungrouped columns, a zero window step and a division by zero are
\* errors of the store; otherwise the rows.
Execute(store, stmt) ==
    LET failed == [status |-> "error", woi |-> {}, rows |-> {}] IN
    IF ~FromParses(stmt.from) \/ ~AliasesResolve(stmt) THEN failed
    ELSE IF stmt.agg.fn # "none" /\ stmt.group_by = <<>> THEN failed
    ELSE LET woi == Windows(store, WoiRel(stmt)[1]) IN
         IF woi.err THEN failed
         ELSE LET res == ResultRows(stmt, WhereRows(FromRows(store, stmt.from), stmt.where))
              IN IF stmt.agg.fn = "weighted_avg" /\ \E x \in res : x.value.den = 0
                 THEN failed
                 ELSE [status |-> "ok", woi |-> woi.rows, rows |-> res]

\* unpack_rows: pg_row.get of a breakout column panics on NULL; the other
\* columns fall back to a default.
unpack_rows(res, names) ==
    IF res.status = "ok"
       /\ \E x \in res.rows : \E i \in DOMAIN names : x.cols[3 + i] = NULL
    THEN "panic"
    ELSE res.status

(***************************************************************************)
(* The arguments of `scdm query metric` (args.rs).  --aggregator requires  *)
(* --name; --ref-period conflicts with --begin and --finish, which require *)
(* each other.  Timestamps are in microseconds.                            *)
(***************************************************************************)
MaxResolution == 3

Aggregators == {"none", "avg", "weighted_avg", "stddev", "min", "max"}

NameArgs ==
    {None, Some(<< <<"host">> >>), Some(<< <<"host">>, <<"env", "=", "prod">> >>),
     Some(<< <<"host">>, <<"env">> >>)}

\* [ref_period, begin, finish]
TimeArgs ==
    {<<None, None, None>>, <<Some("p1"), None, None>>, <<Some("p5"), None, None>>,
     <<None, Some(0), Some(Us(2000))>>, <<None, Some(0), Some(Us(4000))>>,
     <<None, Some(Us(1000)), Some(Us(5000))>>, <<None, Some(Us(1000)), Some(Us(1000))>>}

NoFilters ==
    [run_uuid |-> None, iteration_uuid |-> None, metric_desc_uuid |-> None,
     period_uuid |-> None, metric_type |-> None, value_eq |-> None,
     value_lt |-> None, value_gt |-> None]

\* One scalar filter given, on values of the ingested trees.
FilterArgs ==
    {[NoFilters EXCEPT !.run_uuid = Some("r5")],
     [NoFilters EXCEPT !.iteration_uuid = Some("i5")],
     [NoFilters EXCEPT !.metric_desc_uuid = Some("m5")],
     [NoFilters EXCEPT !.period_uuid = Some("p1")],
     [NoFilters EXCEPT !.metric_type = Some("lat")],
     [NoFilters EXCEPT !.value_eq = Some(10)],
     [NoFilters EXCEPT !.value_lt = Some(30)],
     [NoFilters EXCEPT !.value_gt = Some(10)]}

\* --name items that are neither "name" nor "name=value": two separators,
\* the empty item, an empty name.
InvalidNameArgs ==
    {Some(<< <<"host">>, <<"env", "=", "prod", "=", "x">> >>),
     Some(<< <<"host">>, <<>> >>),
     Some(<< <<"host">>, <<"=", "prod">> >>)}

ArgsOf(f, t, r, n, a) ==
    [run_uuid |-> f.run_uuid, iteration_uuid |-> f.iteration_uuid,
     metric_desc_uuid |-> f.metric_desc_uuid, period_uuid |-> f.period_uuid,
     metric_type |-> f.metric_type, value_eq |-> f.value_eq,
     value_lt |-> f.value_lt, value_gt |-> f.value_gt,
     ref_period |-> t[1], begin |-> t[2], finish |-> t[3],
     resolution |-> r, name |-> n, aggregator |-> a]

\* Every time selector, resolution, well-formed name list and aggregator
\* without filters; each filter, each malformed name list and a name given
\* twice under a reference period.
MetricArgs ==
    {ArgsOf(NoFilters, x[1], x[2], x[3], x[4]) :
        x \in {y \in TimeArgs \X (1..MaxResolution) \X NameArgs \X Aggregators :
                  y[4] # "none" => y[3].some}}
    \cup {ArgsOf(f, <<Some(p), None, None>>, 1,
                 Some(<< <<"host">>, <<"env">> >>), "none") :
            f \in FilterArgs, p \in {"p1", "p5"}}
    \cup {ArgsOf(NoFilters, <<Some("p5"), None, None>>, 1, n, "none") :
            n \in InvalidNameArgs \cup {Some(<< <<"host">>, <<"host">> >>)}}

\* The statements of one transaction run one after the other with no other
\* transaction open: the store, the sequence and the outcome at its end.
RECURSIVE Drive(_, _, _)
Drive(pr, store, ser) ==
    LET k == NextStmt(pr) IN
    IF k = 0
    THEN [store |-> CommitStore(store, pr.pend), serial |-> ser, outcome |-> "committed"]
    ELSE LET t == Order(pr.path)[k]
             rows == StmtRows(pr, t, ser)
             ser2 == IF t = "metric_data" THEN ser + Len(rows) ELSE ser
         IN IF StmtOk(store, pr.pend, t, rows)
            THEN Drive(AfterStmt(pr, k, t, rows), store, ser2)
            ELSE [store |-> StoreAfterDrop(store, pr.pend), serial |-> ser2,
                  outcome |-> "failed"]

\* add, from its first line to its last, while nothing else is running.
add(p) ==
    /\ qry.pc = "none"
    /\ \A q \in Procs : proc[q].pc = "idle"
    /\ ningest < MaxIngest
    /\ \E input \in QueryTreeInputs :
          LET recs == Bucket(Flatten([i \in DOMAIN input |-> run_to_body_jsons(input[i])]))
              out == Drive(BeginTxn("add", recs, <<>>, ningest + 1), db, serial)
          IN /\ db' = out.store
             /\ serial' = out.serial
             /\ proc' = [proc EXCEPT ![p].outcome = out.outcome]
    /\ ningest' = ningest + 1
    /\ UNCHANGED <<qry, batch>>

\* query_metric: build, fetch_all, unpack_rows.
query_metric(args) ==
    LET stmt == BuildStatement(args)
        res == Execute(db, stmt)
    IN  /\ qry.pc = "none"
        /\ qry' = IF InvalidName(args.name)
                  THEN [pc |-> "done", args |-> args, stmt |-> stmt,
                        status |-> "build_error", executed |-> FALSE,
                        woi |-> {}, rows |-> {}]
                  ELSE [pc |-> "done", args |-> args, stmt |-> stmt,
                        status |-> unpack_rows(res, ParseNames(args.name)),
                        executed |-> TRUE, woi |-> res.woi, rows |-> res.rows]
        /\ UNCHANGED <<db, serial, ningest, proc, batch>>

\* The histories followed: ingestions one after the other, then one metric
\* query, whose outcome stays on record beside the store it read.
NextQuery ==
    \/ add("p1")
    \/ \E args \in MetricArgs : query_metric(args)

SpecQuery == Init /\ [][NextQuery]_vars

(***************************************************************************)
(* The statements of insert_records on large batches.  Above, a kind's     *)
(* rows go out as one statement, which is what the code does for every     *)
(* list of at most 1024 entries; here a batch is given by the length of    *)
(* each list, and every INSERT by its number of rows and bind parameters.  *)
(***************************************************************************)
\* slice::chunks(1024) in insert_metric_descs, insert_names and
\* insert_metric_datas.
ChunkRows == 1024
PG_VAR_NUM_LIMIT == 65535

\* The lists iterated with chunks(); every other insert function passes
\* its whole list to one push_values.
Chunked == {"metric_desc", "name", "metric_data"}

\* push_bind calls per row.
Columns ==
    [run |-> 8, tag |-> 3, iteration |-> 7, param |-> 3, sample |-> 5,
     period |-> 5, metric_desc |-> 7, name |-> 3, metric_data |-> 5]

\* The lists insert_runs appends one placeholder per run to.
WithGlobals == {"iteration", "sample", "period", "metric_desc", "metric_data"}

BatchSizes == {0, 1, 1024, 1025, 2500, 21846}

\* Batches with one list of a length in BatchSizes and one entry in every
\* other list.
BatchProfiles ==
    {[t \in DOMAIN EmptyRecs |-> IF t = heavy THEN n ELSE 1] :
        heavy \in DOMAIN EmptyRecs, n \in BatchSizes}

\* The next list with rows left to send; 0 when none.
NextList(b) ==
    LET live == {k \in DOMAIN InsertRecordsOrder :
                    k >= b.idx /\ b.sizes[InsertRecordsOrder[k]] > 0}
    IN IF live = {} THEN 0 ELSE CHOOSE k \in live : \A j \in live : k <= j

\* The rows of the next INSERT for list t, `sent` of its rows already sent.
StatementRows(b, t) ==
    IF t \in Chunked
    THEN IF b.sizes[t] - b.sent > ChunkRows THEN ChunkRows ELSE b.sizes[t] - b.sent
    ELSE b.sizes[t]

\* insert_records is called with the lists of a batch.
CollectBatch ==
    /\ batch.pc # "writing"
    /\ \E sizes \in BatchProfiles :
          batch' = [NoBatch EXCEPT !.pc = "writing", !.sizes = sizes]
    /\ UNCHANGED <<db, serial, ningest, proc, qry>>

\* One INSERT is built and executed.  The backend takes at most
\* PG_VAR_NUM_LIMIT bind parameters in a statement; beyond it the statement
\* fails and `?` returns.
InsertStatement ==
    LET k == NextList(batch)
        t == InsertRecordsOrder[k]
        rows == StatementRows(batch, t)
        stmt == [kind |-> t, rows |-> rows, binds |-> rows * Columns[t]]
        whole == batch.sent + rows = batch.sizes[t]
    IN  /\ batch.pc = "writing"
        /\ k # 0
        /\ batch' =
              IF stmt.binds > PG_VAR_NUM_LIMIT
              THEN [batch EXCEPT !.pc = "failed", !.last = stmt]
              ELSE [batch EXCEPT
                       !.last = stmt,
                       !.num_new = @ + rows,
                       !.idx = IF whole THEN k + 1 ELSE k,
                       !.sent = IF whole THEN 0 ELSE @ + rows,
                       !.sizes = IF t = "run"
                                 THEN [u \in DOMAIN @ |->
                                          IF u \in WithGlobals THEN @[u] + rows ELSE @[u]]
                                 ELSE @]
        /\ UNCHANGED <<db, serial, ningest, proc, qry>>

\* Every insert function returned Ok: insert_records returns the sum.
ReturnBatch ==
    /\ batch.pc = "writing"
    /\ NextList(batch) = 0
    /\ batch' = [batch EXCEPT !.pc = "done"]
    /\ UNCHANGED <<db, serial, ningest, proc, qry>>

NextBatch == CollectBatch \/ InsertStatement \/ ReturnBatch

SpecBatch == Init /\ [][NextBatch]_vars

(***************************************************************************)
(* Ingestion and deletion, one command after the other: parse from its     *)
(* first line to its last, `delete run` and `delete tag`.                   *)
(***************************************************************************)
\* A point of metric m1 arriving in a file of its own.
FlatPoints ==
    <<[kind |-> "metric_data", metric_desc_uuid |-> "m1", begin |-> 1500,
       end |-> 2500, duration |-> 1000, value |-> 20]>>

StoreInputs ==
    {<<FileOf(FlatComplete)>>, <<FileOf(FlatRunScoped)>>, <<FileOf(FlatLate)>>,
     <<FileOf(FlatPoints)>>}

\* parse, while nothing else is running.
parse(p) ==
    /\ \A q \in Procs : proc[q].pc = "idle"
    /\ ningest < MaxIngest
    /\ \E input \in StoreInputs :
          LET r == ReadFiles(input, <<>>) IN
          IF r.err # "none"
          THEN /\ proc' = [proc EXCEPT ![p] =
                              [IdleProc EXCEPT !.path = "parse", !.outcome = "failed",
                                               !.error = r.err, !.input = input]]
               /\ UNCHANGED <<db, serial>>
          ELSE LET out == Drive(BeginTxn("parse", Bucket(r.records), <<>>, ningest + 1),
                                db, serial)
               IN /\ db' = out.store
                  /\ serial' = out.serial
                  /\ proc' = [proc EXCEPT ![p] =
                                 [IdleProc EXCEPT
                                     !.path = "parse", !.outcome = out.outcome,
                                     !.error = IF out.outcome = "failed"
                                               THEN "Database" ELSE "none",
                                     !.input = input]]
    /\ ningest' = ningest + 1
    /\ UNCHANGED <<qry, batch>>

\* DeleteRunArgs with no selector given.  The documents of the model carry
\* no benchmark, email, name or source, so these four stay unset.
NoSelector ==
    [run_uuid |-> None, tag |-> None, begin_before |-> None, begin_after |-> None,
     finish_before |-> None, finish_after |-> None]

\* Timestamps are in milliseconds, as parse_timestamp takes them.
DeleteRunInputs ==
    {NoSelector,
     [NoSelector EXCEPT !.run_uuid = Some("r1")],
     [NoSelector EXCEPT !.run_uuid = Some("r2")],
     [NoSelector EXCEPT !.tag = Some(<<"topo", "=", "x">>)],
     [NoSelector EXCEPT !.tag = Some(<<"topo">>)],
     [NoSelector EXCEPT !.tag = Some(<<"topo", "=", "y">>)],
     [NoSelector EXCEPT !.run_uuid = Some("r2"), !.tag = Some(<<"topo", "=", "x">>)],
     [NoSelector EXCEPT !.begin_after = Some(1)],
     [NoSelector EXCEPT !.finish_before = Some(4000), !.finish_after = Some(4000)]}

DeleteTagInputs ==
    {[run_uuid |-> None, tag |-> None],
     [run_uuid |-> Some("r1"), tag |-> None],
     [run_uuid |-> Some("r2"), tag |-> Some(<<"topo">>)],
     [run_uuid |-> None, tag |-> Some(<<"topo", "=", "y">>)]}

\* (parts.get(0), parts.get(1)) of maybe_tag.split("="), or (None, None).
TagParts(tag) ==
    IF ~tag.some THEN [name |-> None, val |-> None]
    ELSE LET parts == SplitEq(tag.v, "")
         IN [name |-> Some(parts[1]),
             val |-> IF Len(parts) >= 2 THEN Some(parts[2]) ELSE None]

\* The WHERE clause of `DELETE FROM run USING run AS r LEFT JOIN tag AS t`:
\* the run is deleted when one of its joined rows passes every selector.  A
\* run without tags joins one row with NULL tag columns, which passes only
\* when no tag selector is bound.
RunSelected(store, run, a) ==
    LET tg == TagParts(a.tag)
        joined == {t \in store.tag : t.run_uuid = run.run_uuid}
    IN /\ ~a.run_uuid.some \/ run.run_uuid = a.run_uuid.v
       /\ ~a.begin_before.some \/ run.begin <= Us(a.begin_before.v)
       /\ ~a.begin_after.some \/ run.begin >= Us(a.begin_after.v)
       /\ ~a.finish_before.some \/ run.finish <= Us(a.finish_before.v)
       /\ ~a.finish_after.some \/ run.finish >= Us(a.finish_after.v)
       /\ IF ~tg.name.some /\ ~tg.val.some THEN TRUE
          ELSE \E t \in joined :
                  /\ ~tg.name.some \/ t.name = tg.name.v
                  /\ ~tg.val.some \/ t.val = tg.val.v

\* The WHERE clause of `DELETE FROM tag`.
TagSelected(tag, a) ==
    LET tg == TagParts(a.tag)
    IN /\ ~a.run_uuid.some \/ tag.run_uuid = a.run_uuid.v
       /\ ~tg.name.some \/ tag.name = tg.name.v
       /\ ~tg.val.some \/ tag.val = tg.val.v

\* Tables in an order that has every parent before its children.
CascadeOrder ==
    <<"tag", "iteration", "param", "sample", "period", "metric_desc", "name",
      "metric_data">>

RECURSIVE Cascade(_, _)
\* ON DELETE CASCADE: a row goes with the row it references; a row whose
\* reference is NULL references nothing and stays.
Cascade(store, k) ==
    IF k > Len(CascadeOrder) THEN store
    ELSE LET t == CascadeOrder[k]
             parents == {q[KeyCol[Parent[t]]] : q \in store[Parent[t]]}
             kept == {r \in store[t] : FKValue(t, r) = NULL \/ FKValue(t, r) \in parents}
         IN Cascade([store EXCEPT ![t] = kept], k + 1)

\* `scdm query delete run`: one DELETE statement, rows_affected printed.
delete_run(p) ==
    /\ \A q \in Procs : proc[q].pc = "idle"
    /\ \E a \in DeleteRunInputs :
          LET gone == {r \in db.run : RunSelected(db, r, a)}
          IN /\ db' = Cascade([db EXCEPT !.run = @ \ gone], 1)
             /\ proc' = [proc EXCEPT ![p] =
                            [IdleProc EXCEPT !.path = "delete_run",
                                             !.outcome = "committed",
                                             !.num_new = Cardinality(gone)]]
    /\ UNCHANGED <<serial, ningest, qry, batch>>

\* `scdm query delete tag`.
delete_tag(p) ==
    /\ \A q \in Procs : proc[q].pc = "idle"
    /\ \E a \in DeleteTagInputs :
          LET gone == {t \in db.tag : TagSelected(t, a)}
          IN /\ db' = [db EXCEPT !.tag = @ \ gone]
             /\ proc' = [proc EXCEPT ![p] =
                            [IdleProc EXCEPT !.path = "delete_tag",
                                             !.outcome = "committed",
                                             !.num_new = Cardinality(gone)]]
    /\ UNCHANGED <<serial, ningest, qry, batch>>

\* One shell: each command ends before the next begins.
NextStore == parse("p1") \/ delete_run("p1") \/ delete_tag("p1")

SpecStore == Init /\ [][NextStore]_vars

(***************************************************************************)
(* Properties.                                                             *)
(***************************************************************************)

\* Every reference a collected document makes resolves in the batch or in
\* the committed store (the run reference of a MetricDesc included).
RefIn(uuid, docs, col, table) ==
    \/ \E i \in DOMAIN docs : docs[i][col] = uuid
    \/ \E q \in db[table] : q[col] = uuid

ValidDocumentSet(recs) ==
    /\ \A i \in DOMAIN recs.tag : RefIn(recs.tag[i].run_uuid, recs.run, "run_uuid", "run")
    /\ \A i \in DOMAIN recs.iteration :
          RefIn(recs.iteration[i].run_uuid, recs.run, "run_uuid", "run")
    /\ \A i \in DOMAIN recs.param :
          RefIn(recs.param[i].iteration_uuid, recs.iteration, "iteration_uuid", "iteration")
    /\ \A i \in DOMAIN recs.sample :
          RefIn(recs.sample[i].iteration_uuid, recs.iteration, "iteration_uuid", "iteration")
    /\ \A i \in DOMAIN recs.period :
          RefIn(recs.period[i].sample_uuid, recs.sample, "sample_uuid", "sample")
    /\ \A i \in DOMAIN recs.metric_desc :
          /\ recs.metric_desc[i].period # NULL =>
                RefIn(recs.metric_desc[i].period, recs.period, "period_uuid", "period")
          /\ recs.metric_desc[i].run_uuid # NilUuid =>
                RefIn(recs.metric_desc[i].run_uuid, recs.run, "run_uuid", "run")
    /\ \A i \in DOMAIN recs.metric_data :
          RefIn(recs.metric_data[i].metric_desc_uuid, recs.metric_desc,
                "metric_desc_uuid", "metric_desc")

HasParent(store, t, r) ==
    \E q \in store[Parent[t]] : q[KeyCol[Parent[t]]] = r[KeyCol[Parent[t]]]

\* C1 (as claimed): when an ingestion of a valid document set commits, every
\* Tag, Iteration, Param, Sample, Period, MetricDesc, Name and MetricData row
\* it wrote references an existing row of its parent table.
C1_FKComplete ==
    [][\A p \in Procs :
          (/\ proc[p].pc = "txn"
           /\ NextStmt(proc[p]) = 0
           /\ ValidDocumentSet(proc[p].recs)
           /\ db' = CommitStore(db, proc[p].pend))
          => \A t \in DOMAIN Parent : \A r \in proc[p].pend[t] : HasParent(db', t, r)]_vars

\* C2: the step in which a statement of an open transaction fails leaves the
\* committed store as it was, ends the invocation and keeps none of the
\* transaction's rows, so the transaction is never committed.
C2_Atomicity ==
    [][\A p \in Procs :
          (proc[p].pc = "txn" /\ proc'[p].outcome = "failed")
          => /\ db' = db
             /\ proc'[p].pc = "idle"
             /\ proc'[p].pend = EmptyStore]_vars

\* C2 witness: a parse failed at its third statement, after the run and
\* iteration statements had succeeded, and its run is not in the store.
C2_Witness ==
    \E p \in Procs :
        /\ proc[p].outcome = "failed"
        /\ proc[p].issued = <<"run", "iteration">>
        /\ proc[p].path = "parse"
        /\ \A r \in db.run : r.run_uuid # "r3"

\* The statements the fixed kind order prescribes for a record set: one per
\* kind that has rows, Name rows being those derived from the MetricDescs.
PrescribedStatements(recs) ==
    SelectSeq(InsertRecordsOrder,
              LAMBDA t : IF t = "name"
                         THEN ExtractedNames(recs.metric_desc) # <<>>
                         ELSE recs[t] # <<>>)

\* C3 (as claimed): in every path, when all statements of an ingestion have
\* run, they were Run, Tag, Iteration, Param, Sample, Period, MetricDesc,
\* Name, MetricData in that order, the Name statement included.
C3_KindOrder ==
    \A p \in Procs :
        (proc[p].pc = "txn" /\ NextStmt(proc[p]) = 0)
        => proc[p].issued = PrescribedStatements(proc[p].recs)

\* C4 (as claimed): every stored point's duration (ms) is finish - begin.
C4_Duration ==
    \A r \in db.metric_data : r.duration * UsPerMs = r.finish - r.begin

\* C10 (as claimed): each string-valued entry of a stored MetricDesc's names
\* map has exactly one Name row, and no other entry has one.
C10_NameDecomposition ==
    \A md \in db.metric_desc : \A e \in md.names :
        LET rows == {n \in db.name : n.metric_desc_uuid = md.metric_desc_uuid
                                     /\ n.name = e.k}
        IN IF e.is_str
           THEN Cardinality(rows) = 1 /\ \A n \in rows : n.val = e.v
           ELSE rows = {}

\* The point and the window of a joined row.
PointOf(row) == CHOOSE x \in row["metric_data"] : TRUE
WindowOf(row) == CHOOSE x \in row["woi"] : TRUE

JoinedRows == UNION {x.members : x \in qry.rows}

\* C5 (as claimed): in a weighted-avg query, the weight of a point lying
\* fully inside its window is the point's duration, and the weight of a
\* point that begins inside the window and ends after its finish is
\* window_finish - point_begin (in ms).
C5_WeightedAvgWeight ==
    (qry.pc = "done" /\ qry.args.aggregator = "weighted_avg")
    => \A row \in JoinedRows :
          LET pt == PointOf(row)
              w == WindowOf(row)
          IN /\ (w.window_begin <= pt.begin /\ pt.finish <= w.window_finish)
                   => DurationCorrection(row) = pt.duration
             /\ (w.window_begin <= pt.begin /\ pt.begin < w.window_finish
                 /\ pt.finish > w.window_finish)
                   => DurationCorrection(row) * UsPerMs = w.window_finish - pt.begin

\* The interval the windows are cut from: --begin/--finish, or the bounds of
\* the --ref-period row.
RefInterval ==
    IF qry.args.ref_period.some
    THEN {<<p.begin, p.finish>> : p \in {x \in db.period :
                                          x.period_uuid = qry.args.ref_period.v}}
    ELSE IF qry.args.begin.some /\ qry.args.finish.some
    THEN {<<qry.args.begin.v, qry.args.finish.v>>}
    ELSE {}

\* r contiguous, equal-width, pairwise non-overlapping windows from t0 to t1.
IsPartition(W, t0, t1, r) ==
    /\ Cardinality(W) = r
    /\ \E w \in W : w.window_begin = t0
    /\ \E w \in W : w.window_finish = t1
    /\ \A w \in W : w.window_begin < w.window_finish
    /\ \A w1, w2 \in W :
          w1.window_finish - w1.window_begin = w2.window_finish - w2.window_begin
    /\ \A w \in W : w.window_finish = t1 \/ \E w2 \in W : w2.window_begin = w.window_finish
    /\ \A w1, w2 \in W :
          w1 # w2 => (w1.window_finish <= w2.window_begin
                      \/ w2.window_finish <= w1.window_begin)

HasName(uuid, name, value) ==
    \E n \in db.name : /\ n.metric_desc_uuid = uuid
                       /\ n.name = name
                       /\ value.some => n.val = value.v

\* C7 (as claimed): with the breakouts ["host", "env=prod"], every row the
\* statement returns is of a descriptor that has a Name row "host" and a
\* Name row "env" = "prod".
C7_BreakoutChaining ==
    (qry.pc = "done" /\ qry.args.name = Some(<< <<"host">>, <<"env", "=", "prod">> >>))
    => \A row \in JoinedRows :
          /\ HasName(PointOf(row).metric_desc_uuid, "host", None)
          /\ HasName(PointOf(row).metric_desc_uuid, "env", Some("prod"))

\* C8 (as claimed): with only the run of TreeHost in the store, the query
\* with breakout ["host"], aggregator avg, ref-period p1 and resolution 1
\* executes and yields exactly one row, host = "a" and avg = 15.
C8_EndToEnd ==
    (/\ qry.pc = "done"
     /\ {r.run_uuid : r \in db.run} = {"r1"}
     /\ qry.args.name = Some(<< <<"host">> >>)
     /\ qry.args.aggregator = "avg"
     /\ qry.args.ref_period = Some("p1")
     /\ qry.args.resolution = 1)
    => /\ qry.status = "ok"
       /\ Cardinality(qry.rows) = 1
       /\ \A x \in qry.rows : x.cols[4] = "a" /\ x.value.num = 15 * x.value.den

\* The (window, point) pairs of a result.
WindowPoints(rows) ==
    {<<WindowOf(row), PointOf(row)>> : row \in UNION {x.members : x \in rows}}

\* C9 (as claimed): a point is reported under a window only if it overlaps
\* that window (here: at least touches it), in both time-selector modes; and a query with --begin and
\* --finish equal to a period's bounds returns the (window, point) rows of
\* the query with that period as --ref-period.
C9_WindowOverlap ==
    qry.pc = "done"
    => /\ \A row \in JoinedRows :
             /\ PointOf(row).begin <= WindowOf(row).window_finish
             /\ PointOf(row).finish >= WindowOf(row).window_begin
       /\ \A p \in db.period :
             (/\ qry.args.begin = Some(p.begin)
              /\ qry.args.finish = Some(p.finish))
             => WindowPoints(qry.rows)
                = WindowPoints(Execute(db, BuildStatement(
                      [qry.args EXCEPT !.begin = None, !.finish = None,
                                       !.ref_period = Some(p.period_uuid)])).rows)

\* The placeholder MetricDesc of a run, as MetricDescJson::global makes it.
IsPlaceholderDesc(md) == md.metric_type = "global" /\ md.source = "global"

\* C11 (as claimed): a stored MetricDesc has a null period_uuid only if it
\* is the placeholder descriptor synthesized for a run.
C11_NullPeriodOnlyGlobal ==
    \A md \in db.metric_desc : md.period_uuid = NULL => IsPlaceholderDesc(md)

\* The last n entries of a list.
LastN(s, n) == SubSeq(s, Len(s) - n + 1, Len(s))

\* The UUIDs the documents of a record set carry, placeholders left out.
AuthoredUuids(recs, n) ==
    {recs.run[i].run_uuid : i \in DOMAIN recs.run}
    \cup {recs.iteration[i].iteration_uuid : i \in 1..(Len(recs.iteration) - n)}
    \cup {recs.sample[i].sample_uuid : i \in 1..(Len(recs.sample) - n)}
    \cup {recs.period[i].period_uuid : i \in 1..(Len(recs.period) - n)}
    \cup {recs.metric_desc[i].metric_desc_uuid : i \in 1..(Len(recs.metric_desc) - n)}

RECURSIVE RowCount(_, _)
RowCount(store, ts) ==
    IF ts = <<>> THEN 0 ELSE Cardinality(store[Head(ts)]) + RowCount(store, Tail(ts))

\* C16: when an ingestion commits, the count it reports is the number of
\* rows it added to the store, placeholder and Name rows included, and no
\* statement was issued for a kind without rows.
C16_RowsAffected ==
    [][\A p \in Procs :
          (/\ proc[p].pc = "txn"
           /\ NextStmt(proc[p]) = 0
           /\ db' = CommitStore(db, proc[p].pend))
          => /\ proc[p].num_new = RowCount(proc[p].pend, InsertRecordsOrder)
             /\ RowCount(db', InsertRecordsOrder)
                = RowCount(db, InsertRecordsOrder) + proc[p].num_new
             /\ \A i \in DOMAIN proc[p].issued :
                   proc[p].pend[proc[p].issued[i]] # {}]_vars

\* C16 witness: a parse of the complete flat set committed and reported its
\* eight documents, five placeholder rows and one Name row.
C16_Witness ==
    \E p \in Procs :
        /\ proc[p].outcome = "committed"
        /\ proc[p].path = "parse"
        /\ proc[p].num_new = 14
        /\ \E n \in db.name : n.metric_desc_uuid = "m1"

\* C13 (as claimed): the records add hands to the Batch Writer hold one
\* record for every element of the tree it read, each with the UUID of its
\* direct parent: Run, Tag per tag entry, Iteration, Param per params entry,
\* Sample, Period, MetricDesc per metric, MetricData per point.
C13_FlattenEveryElement ==
    \A p \in Procs :
        (proc[p].path = "add" /\ proc[p].pc = "txn" /\ proc[p].issued = <<>>)
        => \E input \in TreeInputs :
              LET recs == proc[p].recs
                  has(t, P(_)) == \E d \in Range(recs[t]) : P(d)
              IN \A r \in Range(input) :
                  /\ has("run", LAMBDA d : d.run_uuid = r.run_uuid)
                  /\ \A e \in r.tags :
                        has("tag", LAMBDA d : d.run_uuid = r.run_uuid
                                              /\ d.name = e.name /\ d.val = e.val)
                  /\ \A it \in Range(r.iterations) :
                        /\ has("iteration", LAMBDA d :
                                  d.iteration_uuid = it.iteration_uuid
                                  /\ d.run_uuid = r.run_uuid)
                        /\ \A e \in it.params :
                              has("param", LAMBDA d :
                                     d.iteration_uuid = it.iteration_uuid
                                     /\ d.arg = e.arg /\ d.val = e.val)
                        /\ \A sa \in Range(it.samples) :
                              /\ has("sample", LAMBDA d :
                                        d.sample_uuid = sa.sample_uuid
                                        /\ d.iteration_uuid = it.iteration_uuid)
                              /\ \A pe \in Range(sa.periods) :
                                    /\ has("period", LAMBDA d :
                                              d.period_uuid = pe.period_uuid
                                              /\ d.sample_uuid = sa.sample_uuid)
                                    /\ \A me \in Range(pe.metrics) :
                                          /\ has("metric_desc", LAMBDA d :
                                                d.metric_desc_uuid = me.metric_desc_uuid
                                                /\ d.period = pe.period_uuid)
                                          /\ \A pt \in Range(me.data) :
                                                has("metric_data", LAMBDA d :
                                                   d.metric_desc_uuid = me.metric_desc_uuid
                                                   /\ d.begin = pt.begin
                                                   /\ d.end = pt.finish
                                                   /\ d.value = pt.value)

\* An index line (a line in index position) whose name maps to no kind.
HasUnknownIndex(input) ==
    \E f \in Range(input) :
        \E k \in DOMAIN f :
            /\ k % 2 = 1
            /\ f[k].ok
            /\ f[k].json
            /\ ~index_name_to_type(f[k].index).some

\* C14 (as claimed): a parse of a stream holding an index record whose name
\* maps to none of the eight kinds fails with UnknownIndex, without a
\* transaction and without a row written.
C14_UnknownIndexFails ==
    \A p \in Procs :
        (proc[p].path = "parse" /\ HasUnknownIndex(proc[p].input))
        => /\ proc[p].pc = "idle"
           /\ proc[p].outcome = "failed"
           /\ proc[p].error = "UnknownIndex"
           /\ proc[p].txn = 0
           /\ proc[p].pend = EmptyStore

\* C15 (as claimed): no INSERT of any kind carries more than 1024 rows, and
\* the bind parameters of a statement stay under the backend limit.
C15_ChunkBound ==
    /\ batch.last.rows <= ChunkRows
    /\ batch.last.binds < PG_VAR_NUM_LIMIT

\* The column each uuid and text filter of MetricArgs is about.
FilterCols ==
    [run_uuid |-> Col("run", "run_uuid"),
     iteration_uuid |-> Col("iteration", "iteration_uuid"),
     metric_desc_uuid |-> Col("metric_data", "metric_desc_uuid"),
     period_uuid |-> Col("period", "period_uuid"),
     metric_type |-> Col("metric_desc", "metric_type")]

\* C17 (as claimed): every row of the result of an executed statement
\* matches each scalar filter that was supplied, and a filter that is absent
\* puts no predicate on its column.
C17_ScalarFilters ==
    (qry.pc = "done" /\ qry.status # "error")
    => /\ \A row \in JoinedRows :
             /\ \A f \in DOMAIN FilterCols :
                   qry.args[f].some => Val(row, FilterCols[f]) = qry.args[f].v
             /\ qry.args.value_eq.some => PointOf(row).value = qry.args.value_eq.v
             /\ qry.args.value_lt.some => PointOf(row).value < qry.args.value_lt.v
             /\ qry.args.value_gt.some => PointOf(row).value > qry.args.value_gt.v
       /\ \A f \in DOMAIN FilterCols :
             ~qry.args[f].some
             => \A i \in DOMAIN qry.stmt.where :
                   qry.stmt.where[i].p = "eq" => qry.stmt.where[i].col # FilterCols[f]
       /\ (\A f \in {"value_eq", "value_lt", "value_gt"} : ~qry.args[f].some)
             => \A i \in DOMAIN qry.stmt.where :
                   qry.stmt.where[i].p \notin {"num_eq", "lt", "gt"}

\* C18 (as claimed): the statement has GROUP BY and ORDER BY exactly when a
\* breakout is given and the aggregator is not none, both on the key run,
\* iteration, metric_type, window begin, window finish, then the breakout
\* values in the order of the tokens.
C18_GroupOrderKey ==
    qry.pc = "done"
    => LET grouped == /\ qry.args.name.some
                      /\ qry.args.name.v # <<>>
                      /\ qry.args.aggregator # "none"
           key == <<Col("run", "run_uuid"), Col("iteration", "iteration_uuid"),
                    Col("metric_desc", "metric_type"),
                    Col("woi", "window_begin"), Col("woi", "window_finish")>>
                  \o NameCols(ParseNames(qry.args.name))
       IN /\ (qry.stmt.group_by # <<>>) <=> grouped
          /\ (qry.stmt.order_by # <<>>) <=> grouped
          /\ grouped => qry.stmt.group_by = key /\ qry.stmt.order_by = key

\* The overlap of a point and a window as the claim defines it.
StrictOverlap(pt, w) ==
    \/ w.window_begin < pt.begin /\ pt.begin < w.window_finish
    \/ w.window_begin < pt.finish /\ pt.finish < w.window_finish
    \/ pt.begin < w.window_begin /\ pt.finish > w.window_finish

\* C19 (as claimed): without scalar filters, a stored point is in the result
\* under a window of the query exactly when it begins strictly inside the
\* window, ends strictly inside it, or strictly spans it.
C19_OverlapPredicate ==
    (/\ qry.pc = "done"
     /\ qry.status # "error"
     /\ \A f \in DOMAIN NoFilters : ~qry.args[f].some)
    => WindowPoints(qry.rows)
       = {x \in qry.woi \X db.metric_data : StrictOverlap(x[2], x[1])}

\* A --name item that is neither "name" nor "name=value" with a name.
InvalidToken(item) ==
    \/ item = <<>>
    \/ Head(item) = "="
    \/ Len(SelectSeq(item, LAMBDA x : x = "=")) > 1

\* C20 (as claimed): a query with an invalid breakout token ends with a
\* query-build error, and nothing is sent to the store.
C20_InvalidToken ==
    (/\ qry.pc = "done"
     /\ qry.args.name.some
     /\ \E i \in DOMAIN qry.args.name.v : InvalidToken(qry.args.name.v[i]))
    => qry.status = "build_error" /\ ~qry.executed

\* C26 (as claimed): in the FROM clause of every built statement, each
\* LEFT JOIN is followed by a relation and an ON condition; the ON of the
\* first breakout subquery is against metric_desc, that of each later one
\* against the subquery before it, all on metric_desc_uuid.
C26_EveryJoinHasOn ==
    qry.pc = "done"
    => LET toks == qry.stmt.from
           names == ParseNames(qry.args.name)
           subs == SelectSeq(toks, LAMBDA x : x.tk = "rel" /\ x.src = "subquery")
           onAfter(i) == toks[i + 2]
       IN /\ \A i \in DOMAIN toks :
                toks[i].tk = "left_join"
                => /\ i + 2 <= Len(toks)
                   /\ toks[i + 1].tk = "rel"
                   /\ toks[i + 2].tk = "on"
          /\ \A i \in DOMAIN toks :
                (toks[i].tk = "left_join" /\ i + 2 <= Len(toks)
                 /\ toks[i + 1].tk = "rel" /\ toks[i + 1].src = "subquery"
                 /\ toks[i + 2].tk = "on")
                => LET k == Cardinality({j \in 1..(i + 1) :
                                             toks[j].tk = "rel" /\ toks[j].src = "subquery"})
                       prev == IF k = 1 THEN "metric_desc" ELSE subs[k - 1].alias
                   IN {onAfter(i).l, onAfter(i).r}
                      = {Col(toks[i + 1].alias, "metric_desc_uuid"),
                         Col(prev, "metric_desc_uuid")}

\* The aliases a statement refers to outside FROM.
ReferencedAliases(stmt) ==
    {c[1] : c \in Range(stmt.select) \cup Range(stmt.group_by) \cup Range(stmt.order_by)}
    \cup {stmt.where[i].col[1] :
            i \in {k \in DOMAIN stmt.where : stmt.where[k].p \in {"eq", "num_eq", "lt", "gt"}}}
    \cup UNION {{stmt.where[i].lo[1], stmt.where[i].hi[1]} :
            i \in {k \in DOMAIN stmt.where : stmt.where[k].p = "overlap"}}

\* C27 (as claimed): every alias a built statement refers to in SELECT,
\* WHERE, GROUP BY or ORDER BY is introduced in FROM, and FROM introduces
\* no alias twice.
C27_AliasesClosed ==
    qry.pc = "done"
    => LET rels == RelTokens(qry.stmt.from) IN
       /\ ReferencedAliases(qry.stmt) \subseteq {rels[i].alias : i \in DOMAIN rels}
       /\ \A i, j \in DOMAIN rels : rels[i].alias = rels[j].alias => i = j

\* C28 (as claimed): in the rows a statement returns, a stored point comes
\* once under a window: no two joined rows are of the same point and window.
C28_PointOnce ==
    (qry.pc = "done" /\ qry.status # "error")
    => \A x, y \in JoinedRows :
          (PointOf(x) = PointOf(y) /\ WindowOf(x) = WindowOf(y)) => x = y

\* The length in ms of the part of a point that lies in a window.
Intersection(pt, w) ==
    LET lo == IF pt.begin > w.window_begin THEN pt.begin ELSE w.window_begin
        hi == IF pt.finish < w.window_finish THEN pt.finish ELSE w.window_finish
    IN IF hi > lo THEN (hi - lo) \div UsPerMs ELSE 0

\* C29 (as claimed): in a weighted-avg query, the weight of every point
\* selected for a window lies between 0 and the point's duration and is the
\* length of the point's intersection with the window.
C29_WeightIsIntersection ==
    (qry.pc = "done" /\ qry.args.aggregator = "weighted_avg")
    => \A row \in JoinedRows :
          StrictOverlap(PointOf(row), WindowOf(row))
          => /\ DurationCorrection(row) >= 0
             /\ DurationCorrection(row) <= PointOf(row).duration
             /\ DurationCorrection(row) = Intersection(PointOf(row), WindowOf(row))

\* A line of the input that cannot be read, or an (index, body) pair that
\* does not parse: an index line that is no index object or names no kind,
\* a body that is not of the kind its index names.
ReadOrParseFailure(input) ==
    \E f \in Range(input) :
        \/ \E k \in DOMAIN f : ~f[k].ok
        \/ \E k \in DOMAIN f :
              /\ k % 2 = 1
              /\ f[k].ok
              /\ \/ ~f[k].json
                 \/ ~index_name_to_type(f[k].index).some
                 \/ /\ k + 1 <= Len(f)
                    /\ f[k + 1].ok
                    /\ parse_body(index_name_to_type(f[k].index).v, f[k + 1]).err # "none"

\* C24 (as claimed): a parse whose input has a line that cannot be read or
\* a document that does not parse fails before a transaction is begun and
\* writes nothing.
C24_ReadBeforeWrite ==
    \A p \in Procs :
        (proc[p].path = "parse" /\ ReadOrParseFailure(proc[p].input))
        => /\ proc[p].pc = "idle"
           /\ proc[p].outcome = "failed"
           /\ proc[p].txn = 0
           /\ proc[p].pend = EmptyStore

\* C25 (as claimed): a command that ends with an error has committed no
\* transaction.
C25_AllOrNothing ==
    \A p \in Procs : proc[p].outcome = "failed" => proc[p].done = 0

RECURSIVE LineCount(_)
LineCount(files) == IF files = <<>> THEN 0 ELSE Len(Head(files)) + LineCount(Tail(files))

\* C30 (as claimed): when a parse commits, every line of its files was the
\* index or the body of a pair that gave one record: there are twice as many
\* lines as records.
C30_NoLineDropped ==
    [][\A p \in Procs :
          (/\ proc[p].path = "parse"
           /\ proc[p].pc = "txn"
           /\ proc'[p].pc = "idle"
           /\ proc'[p].outcome = "committed")
          => LineCount(proc[p].input) = 2 * Len(ReadFiles(proc[p].input, <<>>).records)]_vars

\* No Run UUID is held by two transactions, open or committed.
RunHeldOnce ==
    \A p \in Procs :
        /\ Keys(proc[p].pend.run, "run") \cap Keys(db.run, "run") = {}
        /\ \A q \in Procs \ {p} :
              Keys(proc[p].pend.run, "run") \cap Keys(proc[q].pend.run, "run") = {}

C21_ReingestFails ==
    [][\A p \in Procs :
          (/\ proc[p].path = "parse"
           /\ proc[p].outcome = "committed"
           /\ ningest' = ningest + 1
           /\ proc'[p].path = "parse"
           /\ proc'[p].input = proc[p].input)
          => /\ proc'[p].outcome = "failed"
             /\ db' = db]_vars

\* The run named by the document of a metric descriptor.
DocRun(metric_desc_uuid) ==
    LET docs == {d \in Range(FlatComplete) \cup Range(FlatRunScoped) \cup Range(FlatLate) :
                    d.kind = "metric_desc" /\ d.metric_desc_uuid = metric_desc_uuid}
    IN IF docs = {} THEN NULL ELSE (CHOOSE d \in docs : TRUE).run_uuid

RECURSIVE RunOf(_, _, _)
\* The run a row belongs to: up the references, and for a metric descriptor
\* without a period the run its document names.
RunOf(store, t, r) ==
    IF t = "run" THEN r.run_uuid
    ELSE IF t = "metric_desc" /\ r.period_uuid = NULL THEN DocRun(r.metric_desc_uuid)
    ELSE LET ps == {q \in store[Parent[t]] : q[KeyCol[Parent[t]]] = FKValue(t, r)}
         IN IF ps = {} THEN NULL ELSE RunOf(store, Parent[t], CHOOSE q \in ps : TRUE)

\* C23: a command that deletes a Run leaves no row of that Run in any table.
C23_DeleteRunCascades ==
    [][\A run \in db.run :
          run \notin db'.run
          => \A t \in DOMAIN db : \A r \in db'[t] : RunOf(db, t, r) # run.run_uuid]_vars

====
